---- MODULE Spec2Model ----
(***************************************************************************)
(* A model of the naver-estate-bot pipeline: the Korean price parser, the   *)
(* retrying page fetch and the paginated scrape (scraper.py), the delta    *)
(* summary (main.compute_summary), the Sheets tab write and read           *)
(* (sheets_handler.py), the Notion upsert (notion_handler.py) and the CLI  *)
(* orchestration (main.run).                                               *)
(*                                                                         *)
(* Text is modelled as a sequence of one-character strings, so that        *)
(* str(), isdigit(), int(), split() and replace() are computed rather than *)
(* assumed.  Characters outside ASCII are written with stand-ins:          *)
(*   "E" is the large-unit marker (U+C5B5, 10^4 man-won),                  *)
(*   "sup2" is SUPERSCRIPT TWO (U+00B2), a digit for str.isdigit() that    *)
(*   int() rejects,                                                        *)
(*   "manwon", "cheung", "m2" are the literals of the lowest-listing line. *)
(* A spreadsheet cell (a value of a yesterday row) is a record             *)
(* [t, n, s]: t = "none" (key absent / None), "int" (value n) or           *)
(* "str" (text s).                                                         *)
(* Averages are exact rationals [num, den] in lowest terms; the source     *)
(* computes them in binary floating point.                                 *)
(***************************************************************************)
EXTENDS Integers, Sequences, FiniteSets, TLC

VARIABLES
    today_listings,   \* compute_summary argument: list[Listing]
    yesterday_rows,   \* compute_summary argument: list[dict]
    clock,            \* the calendar day date.today() reads
    summary,          \* the last compute_summary call: its arguments and result
    article,          \* parse_article argument: the article dict of the Naver API
    article_trade,    \* parse_article argument: trade_type
    parsed,           \* what parse_article returned, once it has run
    pages,            \* the pages of the Notion database, in creation order
    pending,          \* write_summaries: the summaries its loop has still to upsert
    last_upserted,    \* per key, the summary upsert_summary was last called with
    upsert_count,     \* the number of upsert_summary calls made
    run_args,         \* run: the parsed command line flags
    pc,               \* run: where the coroutine stands
    results,          \* run: complex_id -> the listings run_scraper returned
    tabs,             \* the spreadsheet: day -> <<>> (no tab) or <<its data rows>>
    yesterday,        \* run: the name of the tab read as the baseline
    loop_i,           \* run: the (complex, trade type) pair the loop is at
    run_summaries,    \* run: the summaries computed so far
    calls,            \* the collaborator functions run has invoked
    published,        \* the list handed to notion_handler.write_summaries
    scrape_pc,        \* run_scraper: where the coroutine stands
    trade_i,          \* run_scraper: the trade type its inner loop is at
    collected,        \* run_scraper: results[complex_id]
    sc_listings,      \* scrape_complex: its list `listings`, collected so far
    page_num,         \* scrape_complex: the page to fetch next
    attempt,          \* fetch_articles_page: the attempt of its retry loop
    outcomes,         \* the outcomes of page.evaluate in the fetch under way or last made
    data              \* scrape_complex: what fetch_articles_page last returned

vars == <<today_listings, yesterday_rows, clock, summary, article, article_trade, parsed,
          pages, pending, last_upserted, upsert_count,
          run_args, pc, results, tabs, yesterday, loop_i, run_summaries, calls, published,
          scrape_pc, trade_i, collected, sc_listings, page_num, attempt, outcomes, data>>

summaryVars == <<today_listings, yesterday_rows, clock, summary>>

parseVars == <<article, article_trade, parsed>>

notionVars == <<pages, pending, last_upserted, upsert_count>>

runVars == <<run_args, pc, results, tabs, yesterday, loop_i, run_summaries, calls, published>>

scrapeVars == <<scrape_pc, trade_i, collected, sc_listings, page_num, attempt, outcomes, data>>

\* the parts of the state a specification leaves at rest
NoArticle == [articleNo |-> <<>>, dealOrWarrantPrc |-> <<>>, rentPrc |-> <<>>]

IdleParse ==
    /\ article = NoArticle
    /\ article_trade = "A1"
    /\ parsed = <<>>

IdleSummary ==
    /\ today_listings = <<>>
    /\ yesterday_rows = <<>>
    /\ clock = 0
    /\ summary = <<>>

IdleNotion ==
    /\ pages = <<>>
    /\ pending = <<>>
    /\ last_upserted = <<>>
    /\ upsert_count = 0

IdleRun ==
    /\ run_args = [scrape_only |-> FALSE, sheets_only |-> FALSE, notion_only |-> FALSE]
    /\ pc = "idle"
    /\ results = <<>>
    /\ tabs = <<>>
    /\ yesterday = 0
    /\ loop_i = 0
    /\ run_summaries = <<>>
    /\ calls = {}
    /\ published = <<>>

\* the empty dict fetch_articles_page returns on failure
EmptyDict == [empty |-> TRUE, articleList |-> <<>>, isMoreData |-> FALSE]

IdleScrape ==
    /\ scrape_pc = "idle"
    /\ trade_i = 0
    /\ collected = <<>>
    /\ sc_listings = <<>>
    /\ page_num = 0
    /\ attempt = 0
    /\ outcomes = <<>>
    /\ data = EmptyDict

----------------------------------------------------------------------------
(* Python text and number primitives *)

DigitSeq == <<"0", "1", "2", "3", "4", "5", "6", "7", "8", "9">>

Digits == {DigitSeq[i] : i \in DOMAIN DigitSeq}

DigitChar(d) == DigitSeq[d + 1]

DigitVal(c) == (CHOOSE i \in DOMAIN DigitSeq : DigitSeq[i] = c) - 1

RECURSIVE NatToStr(_)
NatToStr(n) ==
    IF n < 10 THEN <<DigitChar(n)>>
    ELSE NatToStr(n \div 10) \o <<DigitChar(n % 10)>>

\* str(n) for an int n
IntToStr(n) == IF n < 0 THEN <<"-">> \o NatToStr(-n) ELSE NatToStr(n)

\* the characters str.isdigit() accepts: the decimal digits and the digits that
\* are not decimal, such as the superscripts
DigitLike == Digits \cup {"sup2"}

\* str.isdigit(): non-empty and every character a digit
isdigit(s) == Len(s) > 0 /\ \A i \in DOMAIN s : s[i] \in DigitLike

\* the texts int() reads as an unsigned number
IsDecimal(s) == Len(s) > 0 /\ \A i \in DOMAIN s : s[i] \in Digits

RECURSIVE DigitsToNat(_)
DigitsToNat(s) ==
    IF s = <<>> THEN 0
    ELSE 10 * DigitsToNat(SubSeq(s, 1, Len(s) - 1)) + DigitVal(s[Len(s)])

\* int(s) for text s: an optional sign and digits, else ValueError
PyInt(s) ==
    LET neg  == s # <<>> /\ s[1] = "-"
        body == IF s # <<>> /\ s[1] \in {"-", "+"} THEN Tail(s) ELSE s
    IN  IF IsDecimal(body)
        THEN [ok |-> TRUE, val |-> IF neg THEN 0 - DigitsToNat(body) ELSE DigitsToNat(body)]
        ELSE [ok |-> FALSE, val |-> 0]

\* cells of a row read back from the spreadsheet
NoneVal == [t |-> "none", n |-> 0, s |-> <<>>]

IntVal(k) == [t |-> "int", n |-> k, s |-> <<>>]

StrVal(x) == [t |-> "str", n |-> 0, s |-> x]

\* bool(v): None, 0 and "" are falsy
Truthy(v) ==
    CASE v.t = "none" -> FALSE
      [] v.t = "int"  -> v.n # 0
      [] OTHER        -> v.s # <<>>

\* str(v)
PyStr(v) ==
    CASE v.t = "none" -> <<"N", "o", "n", "e">>
      [] v.t = "int"  -> IntToStr(v.n)
      [] OTHER        -> v.s

\* int(v) of a cell that passed the isdigit test
CellInt(v) == IF v.t = "int" THEN v.n ELSE PyInt(v.s).val

\* int(v) of a cell that passed the isdigit test raises ValueError
CellIntRaises(v) == v.t = "str" /\ ~PyInt(v.s).ok

RECURSIVE SeqSum(_)
SeqSum(s) == IF s = <<>> THEN 0 ELSE Head(s) + SeqSum(Tail(s))

RECURSIVE SeqMin(_)
SeqMin(s) ==
    IF Len(s) = 1 THEN Head(s)
    ELSE LET m == SeqMin(Tail(s)) IN IF Head(s) <= m THEN Head(s) ELSE m

RECURSIVE Gcd(_, _)
Gcd(a, b) == IF b = 0 THEN a ELSE Gcd(b, a % b)

Abs(x) == IF x < 0 THEN 0 - x ELSE x

\* the rational num/den (den > 0) in lowest terms
Rat(num, den) ==
    LET g == Gcd(Abs(num), den)
    IN  [num |-> num \div g, den |-> den \div g]

RatZero == [num |-> 0, den |-> 1]

RatSub(a, b) == Rat(a.num * b.den - b.num * a.den, a.den * b.den)

\* round(100 * a / b, 1) in tenths of a percent (b # 0), ties to even
RoundPctTenths(a, b) ==
    LET num == 1000 * a.num * b.den
        den == a.den * b.num
        n   == IF den < 0 THEN 0 - num ELSE num
        d   == Abs(den)
        q   == n \div d
        r   == n - q * d
    IN  IF 2 * r > d \/ (2 * r = d /\ q % 2 = 1) THEN q + 1 ELSE q

----------------------------------------------------------------------------
(* main.compute_summary *)

\* f"{x}" of a float given in tenths (area_m2), e.g. 849 -> "84.9"
FloatToStr(t) == IntToStr(t \div 10) \o <<".">> \o <<DigitChar(t % 10)>>

\* today_ids = {l.listing_id for l in today_listings}
TodayIds(today) == {today[i].listing_id : i \in DOMAIN today}

\* yesterday_ids = {str(r.get("listing_id", "")) for r in rows if r.get("listing_id")}
YesterdayIds(rows) ==
    {PyStr(rows[i].listing_id) : i \in {j \in DOMAIN rows : Truthy(rows[j].listing_id)}}

\* a filter that lets price 0 through
RECURSIVE TodayPrices_KeepZero(_)
TodayPrices_KeepZero(today) ==
    IF today = <<>> THEN <<>>
    ELSE IF Head(today).price >= 0
         THEN <<Head(today).price>> \o TodayPrices_KeepZero(Tail(today))
         ELSE TodayPrices_KeepZero(Tail(today))

\* today_prices = [l.price for l in today_listings if l.price > 0]
RECURSIVE TodayPrices(_)
TodayPrices(today) ==
    IF today = <<>> THEN <<>>
    ELSE IF Head(today).price > 0
         THEN <<Head(today).price>> \o TodayPrices(Tail(today))
         ELSE TodayPrices(Tail(today))

\* the filter of the y_prices comprehension
ValidYesterdayPrice(r) ==
    /\ Truthy(r.price)
    /\ isdigit(PyStr(r.price))
    /\ CellInt(r.price) > 0

\* the filter of the y_prices comprehension raises on some row: int(r["price"]) is
\* reached (the cell is truthy and isdigit) and rejects the text
YesterdayPricesRaise(rows) ==
    \E i \in DOMAIN rows :
        /\ Truthy(rows[i].price)
        /\ isdigit(PyStr(rows[i].price))
        /\ CellIntRaises(rows[i].price)

\* the call left compute_summary with a ValueError instead of a ComplexSummary
ValueErrorRaised == [raised |-> "ValueError"]

\* y_prices = [int(r.get("price", 0)) for r in yesterday_rows if ...]
RECURSIVE YesterdayPrices(_)
YesterdayPrices(rows) ==
    IF rows = <<>> THEN <<>>
    ELSE IF ValidYesterdayPrice(Head(rows))
         THEN <<CellInt(Head(rows).price)>> \o YesterdayPrices(Tail(rows))
         ELSE YesterdayPrices(Tail(rows))

\* sum(p) / len(p) if p else 0.0
Average(prices) == IF prices = <<>> THEN RatZero ELSE Rat(SeqSum(prices), Len(prices))

\* min(p) if p else 0
Minimum(prices) == IF prices = <<>> THEN 0 ELSE SeqMin(prices)

NoListing == [listing_id |-> <<>>, price |-> 0, monthly_rent |-> 0,
              area_m2 |-> 0, floor |-> 0, agent_name |-> <<>>]

\* a loop that lets a later listing of the same price replace the one kept
RECURSIVE LowestFrom_LastWins(_, _)
LowestFrom_LastWins(today, lowest) ==
    IF today = <<>> THEN lowest
    ELSE LET l == Head(today)
         IN  IF l.price > 0 /\ (lowest = NoListing \/ l.price <= lowest.price)
             THEN LowestFrom_LastWins(Tail(today), l)
             ELSE LowestFrom_LastWins(Tail(today), lowest)

\* the loop over today_listings that keeps the first strictly cheapest listing;
\* NoListing stands for None
RECURSIVE LowestFrom(_, _)
LowestFrom(today, lowest) ==
    IF today = <<>> THEN lowest
    ELSE LET l == Head(today)
         IN  IF l.price > 0 /\ (lowest = NoListing \/ l.price < lowest.price)
             THEN LowestFrom(Tail(today), l)
             ELSE LowestFrom(Tail(today), lowest)

Lowest(today) == LowestFrom(today, NoListing)

\* the price label and the one-line description of the lowest listing
LowestStr(lowest, trade_type) ==
    IF lowest = NoListing THEN <<>>
    ELSE LET price_label ==
                 IF trade_type = "B2"
                 THEN IntToStr(lowest.price) \o <<"manwon/">>
                          \o IntToStr(lowest.monthly_rent) \o <<"manwon">>
                 ELSE IntToStr(lowest.price) \o <<"manwon">>
         IN  IntToStr(lowest.floor) \o <<"cheung / ">> \o FloatToStr(lowest.area_m2)
                 \o <<"m2 / ">> \o price_label \o <<" / ">> \o lowest.agent_name

\* the difference taken the wrong way round
AvgChange_Reversed(avg_price, y_avg) == RatSub(y_avg, avg_price)

\* avg_change = avg_price - y_avg
AvgChange(avg_price, y_avg) == RatSub(avg_price, y_avg)

\* a difference that is only taken against a baseline that has a valid price
MinChange_Guarded(min_price, y_min) == IF y_min # 0 THEN min_price - y_min ELSE 0

\* min_change = min_price - y_min
MinChange(min_price, y_min) == min_price - y_min

\* avg_change_pct = (avg_change / y_avg * 100) if y_avg else 0.0, then round(.., 1),
\* in tenths of a percent
AvgChangePct(avg_change, y_avg) ==
    IF y_avg.num # 0 THEN RoundPctTenths(avg_change, y_avg) ELSE 0

compute_summary(complex_id, trade_type, today, rows, now) ==
    LET today_ids     == TodayIds(today)
        yesterday_ids == YesterdayIds(rows)
        today_prices  == TodayPrices(today)
        avg_price     == Average(today_prices)
        min_price     == Minimum(today_prices)
        y_prices      == YesterdayPrices(rows)
        y_avg         == Average(y_prices)
        y_min         == Minimum(y_prices)
        avg_change    == AvgChange(avg_price, y_avg)
    IN  IF YesterdayPricesRaise(rows) THEN ValueErrorRaised ELSE
        [complex_id           |-> complex_id,
         date                 |-> now,
         trade_type           |-> trade_type,
         total_listings       |-> Len(today),
         new_listings         |-> Cardinality(today_ids \ yesterday_ids),
         removed_listings     |-> Cardinality(yesterday_ids \ today_ids),
         avg_price            |-> avg_price,
         avg_price_change     |-> avg_change,
         avg_price_change_pct |-> AvgChangePct(avg_change, y_avg),
         min_price            |-> min_price,
         min_price_change     |-> MinChange(min_price, y_min),
         lowest_listing       |-> LowestStr(Lowest(today), trade_type)]

----------------------------------------------------------------------------
(* Calls of compute_summary on bounded inputs *)

\* the most listings plus rows handed to one call
MaxRows == 3

\* the last calendar day the clock reaches
MaxClock == 1

\* the most listings plus rows of a call that is repeated on another day
MaxPureRows == 1

SeqsUpTo(S, n) == UNION {[1..k -> S] : k \in 0..n}

ListingIds == {<<"1">>, <<"2">>}

Prices == {0, 100, 200}

Listings ==
    [listing_id : ListingIds, price : Prices, monthly_rent : {0, 50},
     area_m2 : {849}, floor : {3}, agent_name : {<<"A">>}]

RowIdCells == {NoneVal, StrVal(<<>>), IntVal(0), IntVal(1), StrVal(<<"2">>)}

RowPriceCells == {NoneVal, IntVal(150), StrVal(<<"x">>)}

Rows == [listing_id : RowIdCells, price : RowPriceCells]

TradeTypes == {"A1", "B2"}

ComplexId == "8928"

InsertAt(s, i, x) == SubSeq(s, 1, i - 1) \o <<x>> \o SubSeq(s, i, Len(s))

InitSummary ==
    /\ today_listings \in SeqsUpTo(Listings, MaxRows)
    /\ yesterday_rows \in SeqsUpTo(Rows, MaxRows - Len(today_listings))
    /\ clock = 0
    /\ summary = <<>>
    /\ IdleParse
    /\ IdleNotion
    /\ IdleRun
    /\ IdleScrape

\* one call compute_summary(complex_id, trade_type, today_listings, yesterday_rows)
CallSummary(trade_type) ==
    /\ summary' = <<[complex_id |-> ComplexId,
                     trade_type |-> trade_type,
                     today      |-> today_listings,
                     rows       |-> yesterday_rows,
                     res        |-> compute_summary(ComplexId, trade_type, today_listings,
                                                    yesterday_rows, clock)]>>
    /\ UNCHANGED <<today_listings, yesterday_rows, clock, parseVars, notionVars, runVars, scrapeVars>>

\* the caller adds a listing whose price did not parse (price 0) to today's list
InsertZeroPrice(i, l) ==
    /\ Len(today_listings) + Len(yesterday_rows) < MaxRows
    /\ l.price = 0
    /\ today_listings' = InsertAt(today_listings, i, l)
    /\ UNCHANGED <<yesterday_rows, clock, summary, parseVars, notionVars, runVars, scrapeVars>>

\* midnight passes
Tick ==
    /\ clock < MaxClock
    /\ clock' = clock + 1
    /\ UNCHANGED <<today_listings, yesterday_rows, summary, parseVars, notionVars, runVars, scrapeVars>>

NextSummary ==
    \/ \E trade_type \in TradeTypes : CallSummary(trade_type)
    \/ \E l \in Listings : \E i \in 1..(Len(today_listings) + 1) : InsertZeroPrice(i, l)

\* calls of compute_summary on every input within MaxRows, on one calendar day
SpecSummary == InitSummary /\ [][NextSummary]_vars

InitPure ==
    /\ today_listings \in SeqsUpTo(Listings, MaxPureRows)
    /\ yesterday_rows \in SeqsUpTo(Rows, MaxPureRows - Len(today_listings))
    /\ clock = 0
    /\ summary = <<>>
    /\ IdleParse
    /\ IdleNotion
    /\ IdleRun
    /\ IdleScrape

NextPure ==
    \/ \E trade_type \in TradeTypes : CallSummary(trade_type)
    \/ Tick

\* repeated calls of compute_summary on the same arguments while the date changes
SpecPure == InitPure /\ [][NextPure]_vars

\* the most listings plus rows of a call on loosely typed rows
MaxLoose == 3

LooseListings ==
    [listing_id : ListingIds, price : Prices, monthly_rent : {50},
     area_m2 : {849}, floor : {3}, agent_name : {<<"A">>}]

\* price cells as get_all_records can return them: absent, empty, 0, two valid
\* prices, a word, and a text of a digit that is not decimal
LoosePriceCells ==
    {NoneVal, StrVal(<<>>), IntVal(0), IntVal(150), IntVal(300), StrVal(<<"x">>),
     StrVal(<<"sup2">>)}

LooseRows == [listing_id : {IntVal(1), StrVal(<<"2">>)}, price : LoosePriceCells]

InitRows ==
    /\ today_listings \in SeqsUpTo(LooseListings, MaxLoose)
    /\ yesterday_rows \in SeqsUpTo(LooseRows, MaxLoose - Len(today_listings))
    /\ clock = 0
    /\ summary = <<>>
    /\ IdleParse
    /\ IdleNotion
    /\ IdleRun
    /\ IdleScrape

NextRows == \E trade_type \in TradeTypes : CallSummary(trade_type)

\* calls of compute_summary on rows whose price cells are loosely typed
SpecRows == InitRows /\ [][NextRows]_vars

----------------------------------------------------------------------------
(* Properties of compute_summary *)

Range(s) == {s[i] : i \in DOMAIN s}

\* every reordering of the list s
Reorderings(s) == {[i \in DOMAIN s |-> s[p[i]]] : p \in Permutations(DOMAIN s)}

\* an id cell that is neither missing nor empty text
PresentId(v) == ~(v.t = "none" \/ (v.t = "str" /\ v.s = <<>>))

\* yesterday's ids as text, the missing and the empty ones left out
StatedYesterdayIds(rows) ==
    {PyStr(rows[i].listing_id) : i \in {j \in DOMAIN rows : PresentId(rows[j].listing_id)}}

\* b is a with listings of price 0 inserted at some positions
RECURSIVE IsZeroInsertion(_, _)
IsZeroInsertion(a, b) ==
    IF b = <<>> THEN a = <<>>
    ELSE \/ a # <<>> /\ Head(a) = Head(b) /\ IsZeroInsertion(Tail(a), Tail(b))
         \/ Head(b).price = 0 /\ IsZeroInsertion(a, Tail(b))

\* the price statistics of a summary
PriceStats(res) ==
    <<res.avg_price, res.min_price, res.avg_price_change, res.min_price_change,
      res.lowest_listing>>

\* C1: with T today's ids and Y yesterday's ids as text, missing and empty ids left
\* out, every call returns new_listings + |T \cap Y| = |T| and
\* removed_listings + |T \cap Y| = |Y|, whatever the order of either list.
C1_SetDifference ==
    summary # <<>> =>
        LET c == summary[1]
            T == {c.today[i].listing_id : i \in DOMAIN c.today}
            Y == StatedYesterdayIds(c.rows)
        IN  /\ c.res.new_listings + Cardinality(T \cap Y) = Cardinality(T)
            /\ c.res.removed_listings + Cardinality(T \cap Y) = Cardinality(Y)
            /\ \A t \in Reorderings(c.today) : \A r \in Reorderings(c.rows) :
                   LET o == compute_summary(c.complex_id, c.trade_type, t, r, c.res.date)
                   IN  /\ o.new_listings = c.res.new_listings
                       /\ o.removed_listings = c.res.removed_listings

\* C1 read with Y as the code builds it (ids that are truthy: integer 0 is left
\* out as well): the same two equations and the independence of order.
C1_SetDifferenceTruthyIds ==
    summary # <<>> =>
        LET c == summary[1]
            T == {c.today[i].listing_id : i \in DOMAIN c.today}
            Y == {PyStr(v) : v \in {w \in {c.rows[i].listing_id : i \in DOMAIN c.rows} :
                                        PresentId(w) /\ w # IntVal(0)}}
        IN  /\ c.res.new_listings + Cardinality(T \cap Y) = Cardinality(T)
            /\ c.res.removed_listings + Cardinality(T \cap Y) = Cardinality(Y)
            /\ \A t \in Reorderings(c.today) : \A r \in Reorderings(c.rows) :
                   LET o == compute_summary(c.complex_id, c.trade_type, t, r, c.res.date)
                   IN  /\ o.new_listings = c.res.new_listings
                       /\ o.removed_listings = c.res.removed_listings

\* C2: a call with the arguments of the call before it returns the same summary in
\* every field, whenever it is made.
C2_SameArgumentsSameSummary ==
    [][(/\ summary # <<>>
        /\ summary' # <<>>
        /\ summary'[1].complex_id = summary[1].complex_id
        /\ summary'[1].trade_type = summary[1].trade_type
        /\ summary'[1].today = summary[1].today
        /\ summary'[1].rows = summary[1].rows)
           => summary'[1].res = summary[1].res]_vars

\* C6: with no listing today, avg_price = 0.0, min_price = 0, lowest_listing = "",
\* new_listings = 0, total_listings = 0 and removed_listings is the number of
\* distinct yesterday ids that are not missing or empty.
C6_EmptyToday ==
    (summary # <<>> /\ summary[1].today = <<>>) =>
        LET c == summary[1]
        IN  /\ c.res.avg_price = RatZero
            /\ c.res.min_price = 0
            /\ c.res.lowest_listing = <<>>
            /\ c.res.new_listings = 0
            /\ c.res.total_listings = 0
            /\ c.res.removed_listings = Cardinality(StatedYesterdayIds(c.rows))

\* C7: with no row of yesterday, avg_price_change = avg_price,
\* avg_price_change_pct = 0.0, new_listings is the number of distinct ids of
\* today and removed_listings = 0.
C7_EmptyYesterday ==
    (summary # <<>> /\ summary[1].rows = <<>>) =>
        LET c == summary[1]
        IN  /\ c.res.avg_price_change = c.res.avg_price
            /\ c.res.avg_price_change_pct = 0
            /\ c.res.new_listings = Cardinality(Range([i \in DOMAIN c.today |-> c.today[i].listing_id]))
            /\ c.res.removed_listings = 0

\* a call without yesterday rows on two listings with different ids and valid prices
C7_Witness ==
    /\ summary # <<>>
    /\ summary[1].rows = <<>>
    /\ summary[1].res.new_listings = 2
    /\ summary[1].res.avg_price = Rat(150, 1)
    /\ summary[1].res.avg_price_change = Rat(150, 1)

\* C8: listings of price 0 inserted anywhere in today's list after a call leave
\* avg_price, min_price, avg_price_change, min_price_change and lowest_listing of
\* the summary as that call returned them.
C8_ZeroPriceIgnored ==
    (/\ summary # <<>>
     /\ summary[1].rows = yesterday_rows
     /\ IsZeroInsertion(summary[1].today, today_listings)) =>
        PriceStats(compute_summary(summary[1].complex_id, summary[1].trade_type,
                                   today_listings, yesterday_rows, clock))
            = PriceStats(summary[1].res)

\* after a call on a list with a valid price, a listing of price 0 was put in
\* front of the cheapest listing, and yesterday has a valid price too
C8_Witness ==
    /\ summary # <<>>
    /\ Len(today_listings) > Len(summary[1].today)
    /\ today_listings[1].price = 0
    /\ summary[1].res.min_price > 0
    /\ summary[1].res.min_price_change # summary[1].res.min_price

----------------------------------------------------------------------------
(* scraper.py: price parsing and parse_article *)

RECURSIVE LStrip(_)
LStrip(s) == IF s # <<>> /\ Head(s) = " " THEN LStrip(Tail(s)) ELSE s

RECURSIVE RStrip(_)
RStrip(s) ==
    IF s # <<>> /\ s[Len(s)] = " " THEN RStrip(SubSeq(s, 1, Len(s) - 1)) ELSE s

\* s.strip()
Strip(s) == RStrip(LStrip(s))

\* s.replace(c, "")
RECURSIVE Remove(_, _)
Remove(s, c) ==
    IF s = <<>> THEN <<>>
    ELSE IF Head(s) = c THEN Remove(Tail(s), c) ELSE <<Head(s)>> \o Remove(Tail(s), c)

\* c in s
Contains(s, c) == \E i \in DOMAIN s : s[i] = c

IndexOf(s, c) == CHOOSE i \in DOMAIN s : s[i] = c /\ \A j \in 1..(i - 1) : s[j] # c

\* s.split(c)
RECURSIVE Split(_, _)
Split(s, c) ==
    IF ~Contains(s, c) THEN <<s>>
    ELSE <<SubSeq(s, 1, IndexOf(s, c) - 1)>> \o Split(SubSeq(s, IndexOf(s, c) + 1, Len(s)), c)

\* s.split(c, 1) of a text that holds c
SplitOnce(s, c) ==
    <<SubSeq(s, 1, IndexOf(s, c) - 1), SubSeq(s, IndexOf(s, c) + 1, Len(s))>>

\* a returned value, or an exception that leaves the function
Returned(v) == [raised |-> FALSE, val |-> v]

Raised == [raised |-> TRUE, val |-> 0]

_parse_korean_price(text) ==
    LET s == Remove(Remove(Strip(text), ","), " ")
    IN  IF s = <<>> THEN Returned(0)
        ELSE IF Contains(s, "E")
        THEN LET parts     == Split(s, "E")
                 eok       == PyInt(parts[1])
                 has_rem   == isdigit(parts[2]) /\ parts[2] # <<>>
                 remainder == IF has_rem THEN PyInt(parts[2]).val ELSE 0
             IN  IF eok.ok /\ (has_rem => PyInt(parts[2]).ok)
                 THEN Returned(eok.val * 10000 + remainder) ELSE Raised
        ELSE IF PyInt(s).ok THEN Returned(PyInt(s).val) ELSE Returned(0)

\* (price, monthly_rent), or the exception of either amount
_parse_price_field(raw0, trade_type) ==
    LET raw == Strip(raw0)
    IN  IF trade_type = "B2" /\ Contains(raw, "/")
        THEN LET parts   == SplitOnce(raw, "/")
                 deposit == _parse_korean_price(parts[1])
                 monthly == _parse_korean_price(parts[2])
             IN  IF deposit.raised \/ monthly.raised THEN Raised
                 ELSE Returned(<<deposit.val, monthly.val>>)
        ELSE LET price == _parse_korean_price(raw)
             IN  IF price.raised THEN Raised ELSE Returned(<<price.val, 0>>)

\* parse_article returned None
NoneListing == [ok |-> FALSE, listing_id |-> <<>>, trade_type |-> "", price |-> 0,
                monthly_rent |-> 0]

\* the Listing parse_article builds (its identity and price fields), or None: for an
\* empty articleNo, and for any exception, which the outer except turns into None
parse_article(a, trade_type) ==
    LET listing_id == a.articleNo
        price_raw  == IF a.dealOrWarrantPrc # <<>> THEN a.dealOrWarrantPrc ELSE a.rentPrc
        pm         == _parse_price_field(price_raw, trade_type)
    IN  IF listing_id = <<>> THEN NoneListing
        ELSE IF pm.raised THEN NoneListing
        ELSE [ok |-> TRUE, listing_id |-> listing_id, trade_type |-> trade_type,
              price |-> pm.val[1], monthly_rent |-> pm.val[2]]

\* the longest price text
MaxPriceLen == 3

PriceChars == {"0", "1", ",", " ", "E", "/", "-", "x", "sup2"}

Articles ==
    [articleNo : {<<>>, <<"7">>},
     dealOrWarrantPrc : SeqsUpTo(PriceChars, MaxPriceLen),
     rentPrc : {<<>>, <<"1", "0">>}]

InitParse ==
    /\ article \in Articles
    /\ article_trade \in TradeTypes
    /\ parsed = <<>>
    /\ IdleSummary
    /\ IdleNotion
    /\ IdleRun
    /\ IdleScrape

\* scrape_complex hands one article of the page to parse_article
ParseArticle ==
    /\ parsed = <<>>
    /\ parsed' = <<parse_article(article, article_trade)>>
    /\ UNCHANGED <<article, article_trade, summaryVars, notionVars, runVars, scrapeVars>>

NextParse == ParseArticle

\* parse_article on every article within MaxPriceLen
SpecParse == InitParse /\ [][NextParse]_vars

\* C3: the price parser never raises, so every article with an articleNo yields a
\* Listing (with price 0 when the text is no amount) instead of being dropped.
C3_ParserNeverRaises ==
    (parsed # <<>> /\ article.articleNo # <<>>) =>
        /\ parsed[1].ok
        /\ ~_parse_price_field(IF article.dealOrWarrantPrc # <<>>
                               THEN article.dealOrWarrantPrc ELSE article.rentPrc,
                               article_trade).raised

\* C4: every Listing parse_article produces has price >= 0 and monthly_rent >= 0.
C4_PricesNonNegative ==
    (parsed # <<>> /\ parsed[1].ok) =>
        /\ parsed[1].price >= 0
        /\ parsed[1].monthly_rent >= 0

----------------------------------------------------------------------------
(* notion_handler.py: the upsert of summaries *)

\* round(x, 0) of the rational x, ties to even
RatRound(x) ==
    LET q == x.num \div x.den
        r == x.num - q * x.den
    IN  IF 2 * r > x.den \/ (2 * r = x.den /\ q % 2 = 1) THEN q + 1 ELSE q

\* the longest rich-text content _build_properties sends
NotionTextLimit == 2000

\* s[:n]
Take(s, n) == SubSeq(s, 1, IF Len(s) < n THEN Len(s) ELSE n)

_build_properties(s) ==
    [Name            |-> <<s.complex_id, " - ", s.date, " - ", s.trade_type>>,
     ComplexID       |-> s.complex_id,
     Date            |-> s.date,
     TradeType       |-> s.trade_type,
     TotalListings   |-> s.total_listings,
     NewListings     |-> s.new_listings,
     RemovedListings |-> s.removed_listings,
     AvgPrice        |-> RatRound(s.avg_price),
     AvgPriceChange  |-> RatRound(s.avg_price_change),
     AvgPriceChangePct |-> s.avg_price_change_pct,
     MinPrice        |-> s.min_price,
     MinPriceChange  |-> s.min_price_change,
     LowestListing   |-> Take(s.lowest_listing, NotionTextLimit)]

\* the key the query filters on
KeyOf(s) == <<s.complex_id, s.date, s.trade_type>>

PageKey(page) ==
    <<page.properties.ComplexID, page.properties.Date, page.properties.TradeType>>

\* notion.databases.query with the three "equals" filters: the matching pages
QueryResults(pgs, s) == {i \in DOMAIN pgs : PageKey(pgs[i]) = KeyOf(s)}

\* an upsert that never looks at the query's results
upsert_summary_AlwaysCreate(pgs, s, first) ==
    Append(pgs, [id |-> Len(pgs) + 1, properties |-> _build_properties(s)])

\* upsert_summary: update results[0] (the page at index first) when the query
\* found pages, else create a page
upsert_summary(pgs, s, first) ==
    IF QueryResults(pgs, s) # {}
    THEN [pgs EXCEPT ![first].properties = _build_properties(s)]
    ELSE Append(pgs, [id |-> Len(pgs) + 1, properties |-> _build_properties(s)])

\* the most upsert_summary calls of a behaviour
MaxUpserts == 3

SummaryDates == {0, 1}

\* summaries that main can hand over: two contents for each of four keys
SummaryPool ==
    {compute_summary(ComplexId, tt, today, <<>>, d) :
        tt \in TradeTypes, d \in SummaryDates,
        today \in {<<>>, <<[listing_id |-> <<"1">>, price |-> 100, monthly_rent |-> 50,
                            area_m2 |-> 849, floor |-> 3, agent_name |-> <<"A">>]>>}}

SummaryKeys == {KeyOf(s) : s \in SummaryPool}

\* a database that holds at most one page per key
InitNotion ==
    /\ \E start \in SeqsUpTo(SummaryPool, 2) :
           /\ \A i, j \in DOMAIN start : KeyOf(start[i]) = KeyOf(start[j]) => i = j
           /\ pages = [i \in DOMAIN start |-> [id |-> i, properties |-> _build_properties(start[i])]]
    /\ pending = <<>>
    /\ last_upserted = [k \in SummaryKeys |-> <<>>]
    /\ upsert_count = 0
    /\ IdleSummary
    /\ IdleParse
    /\ IdleRun
    /\ IdleScrape

\* write_summaries(summaries) with a token and a database id configured: the loop
\* starts (an empty list returns at once)
WriteSummaries(summaries) ==
    /\ pending = <<>>
    /\ summaries # <<>>
    /\ pending' = summaries
    /\ UNCHANGED <<pages, last_upserted, upsert_count, summaryVars, parseVars, runVars, scrapeVars>>

\* one turn of the loop: upsert_summary(notion, db_id, summary)
UpsertNext ==
    /\ pending # <<>>
    /\ LET s    == Head(pending)
           hits == QueryResults(pages, s)
       IN  /\ \E first \in (IF hits = {} THEN {0} ELSE hits) :
                  pages' = upsert_summary(pages, s, first)
           /\ last_upserted' = [last_upserted EXCEPT ![KeyOf(s)] = <<s>>]
    /\ pending' = Tail(pending)
    /\ upsert_count' = upsert_count + 1
    /\ UNCHANGED <<summaryVars, parseVars, runVars, scrapeVars>>

NextNotion ==
    \/ \E summaries \in SeqsUpTo(SummaryPool, MaxUpserts - upsert_count) :
           WriteSummaries(summaries)
    \/ UpsertNext

\* runs of write_summaries, one after another, on one database
SpecNotion == InitNotion /\ [][NextNotion]_vars

\* C5: after any sequence of upserts made one after another, the database holds at
\* most one page per (complex_id, date, trade_type), and the page of a key carries
\* the properties of the summary last upserted for that key.
C5_UpsertOverwrites ==
    /\ \A i, j \in DOMAIN pages : PageKey(pages[i]) = PageKey(pages[j]) => i = j
    /\ \A k \in DOMAIN last_upserted :
           last_upserted[k] # <<>> =>
               \E i \in DOMAIN pages :
                   /\ PageKey(pages[i]) = k
                   /\ pages[i].properties = _build_properties(last_upserted[k][1])

\* a key was upserted with one content and then with another: one page, new content
C5_Witness ==
    /\ upsert_count >= 2
    /\ Len(pages) = 1
    /\ last_upserted[PageKey(pages[1])] # <<>>
    /\ pages[1].properties.TotalListings = 1
    /\ pending = <<>>

----------------------------------------------------------------------------
(* sheets_handler.py: today's tab and the baseline read *)

\* the text of a trade type code
TradeText(trade_type) ==
    CASE trade_type = "A1" -> <<"A", "1">>
      [] trade_type = "B1" -> <<"B", "1">>
      [] OTHER             -> <<"B", "2">>

\* _listing_to_row: the cells of one data row, as text (the columns the summary reads)
_listing_to_row(l) ==
    [listing_id |-> l.listing_id,
     complex_id |-> l.complex_id,
     trade_type |-> TradeText(l.trade_type),
     date       |-> l.date,
     price      |-> IntToStr(l.price)]

\* get_all_records turns a cell that reads as an integer into an int
Numericise(text) == IF PyInt(text).ok THEN IntVal(PyInt(text).val) ELSE StrVal(text)

\* write_listings(listings) on calendar day now: the tab of that day is opened or
\* created, and (only for a non-empty list) its data rows are replaced
write_listings(sheet, listings, now) ==
    LET rows == [i \in DOMAIN listings |-> _listing_to_row(listings[i])]
    IN  IF listings = <<>>
        THEN [sheet EXCEPT ![now] = IF sheet[now] = <<>> THEN <<(<<>>)>> ELSE sheet[now]]
        ELSE [sheet EXCEPT ![now] = <<rows>>]

\* a read that finds a row in a tab that does not exist
read_worksheet_PhantomRow(sheet, tab_name) ==
    IF sheet[tab_name] = <<>>
    THEN <<[listing_id |-> IntVal(9), complex_id |-> IntVal(8928),
            trade_type |-> StrVal(<<"A", "1">>), price |-> IntVal(100)]>>
    ELSE [i \in DOMAIN sheet[tab_name][1] |->
             LET row == sheet[tab_name][1][i]
             IN  [listing_id |-> Numericise(row.listing_id),
                  complex_id |-> Numericise(row.complex_id),
                  trade_type |-> Numericise(row.trade_type),
                  price      |-> Numericise(row.price)]]

\* read_worksheet(sh, tab_name): the records of the tab, [] when the tab is absent
read_worksheet(sheet, tab_name) ==
    IF sheet[tab_name] = <<>> THEN <<>>
    ELSE [i \in DOMAIN sheet[tab_name][1] |->
             LET row == sheet[tab_name][1][i]
             IN  [listing_id |-> Numericise(row.listing_id),
                  complex_id |-> Numericise(row.complex_id),
                  trade_type |-> Numericise(row.trade_type),
                  price      |-> Numericise(row.price)]]

----------------------------------------------------------------------------
(* main.run: scrape -> sheets -> notion *)

\* config.COMPLEX_IDS and config.TRADE_TYPES, the defaults
RunComplexIds == <<(<<"8", "9", "2", "8">>)>>

RunTradeTypes == <<"A1", "B1", "B2">>

\* the pairs of the two nested loops, in order
RunPairs ==
    [k \in 1..(Len(RunComplexIds) * Len(RunTradeTypes)) |->
        <<RunComplexIds[((k - 1) \div Len(RunTradeTypes)) + 1],
          RunTradeTypes[((k - 1) % Len(RunTradeTypes)) + 1]>>]

\* the most listings one scrape returns for a complex
MaxScraped == 2

ScrapedListings ==
    [listing_id : ListingIds, complex_id : Range(RunComplexIds), trade_type : {"A1", "B2"},
     price : {0, 100}, monthly_rent : {0}, area_m2 : {849}, floor : {3},
     agent_name : {<<"A">>}]

Days == (0 - 1)..MaxClock

\* the Listings parse_article builds with date = today, today being the calendar
\* day run_scraper read when it started
Dated(lst, today) ==
    [i \in DOMAIN lst |->
        [listing_id |-> lst[i].listing_id, complex_id |-> lst[i].complex_id,
         trade_type |-> lst[i].trade_type, date |-> today, price |-> lst[i].price,
         monthly_rent |-> lst[i].monthly_rent, area_m2 |-> lst[i].area_m2,
         floor |-> lst[i].floor, agent_name |-> lst[i].agent_name]]

\* results.get(complex_id, [])
ResultsGet(res, complex_id) ==
    IF complex_id \in DOMAIN res THEN res[complex_id] ELSE <<>>

\* all_listings = [l for listings in results.values() for l in listings]
RECURSIVE AllListings(_, _)
AllListings(res, k) ==
    IF k > Len(RunComplexIds) THEN <<>>
    ELSE ResultsGet(res, RunComplexIds[k]) \o AllListings(res, k + 1)

\* the run returns right after the scrape step
ReturnsAfterScrape_Never(args) == FALSE

\* if args.scrape_only: return
ReturnsAfterScrape(args) == args.scrape_only

\* the scrape step runs
Scrapes(args) == ~args.sheets_only /\ ~args.notion_only

\* the Sheets write runs
WritesSheets(args) == ~args.notion_only

Init ==
    /\ run_args \in [scrape_only : BOOLEAN, sheets_only : BOOLEAN, notion_only : BOOLEAN]
    /\ pc = "start"
    /\ results = <<>>
    /\ \E old \in SeqsUpTo(ScrapedListings, 1) : \E present \in BOOLEAN :
           tabs = [d \in Days |->
                      IF d = 0 - 1 /\ present
                      THEN <<[i \in DOMAIN old |-> _listing_to_row(Dated(old, d)[i])]>>
                      ELSE <<>>]
    /\ yesterday = 0
    /\ loop_i = 0
    /\ run_summaries = <<>>
    /\ calls = {}
    /\ published = <<>>
    /\ IdleSummary
    /\ IdleParse
    /\ IdleNotion
    /\ IdleScrape

\* Step 1: results = await run_scraper(complex_ids, trade_types)
Scrape(scraped) ==
    /\ pc = "start"
    /\ Scrapes(run_args)
    /\ results' = [c \in Range(RunComplexIds) |-> Dated(scraped, clock)]
    /\ calls' = calls \cup {"run_scraper"}
    /\ pc' = "scraped"
    /\ UNCHANGED <<run_args, tabs, yesterday, loop_i, run_summaries, published,
                   summaryVars, parseVars, notionVars, scrapeVars>>

\* Step 1 skipped: results stays the empty dict
SkipScrape ==
    /\ pc = "start"
    /\ ~Scrapes(run_args)
    /\ pc' = "scraped"
    /\ UNCHANGED <<run_args, results, tabs, yesterday, loop_i, run_summaries, calls,
                   published, summaryVars, parseVars, notionVars, scrapeVars>>

\* --scrape-only: done.
ScrapeOnlyReturn ==
    /\ pc = "scraped"
    /\ ReturnsAfterScrape(run_args)
    /\ pc' = "done"
    /\ UNCHANGED <<run_args, results, tabs, yesterday, loop_i, run_summaries, calls,
                   published, summaryVars, parseVars, notionVars, scrapeVars>>

\* Step 2: sheets_handler.write_listings(all_listings)
WriteSheets ==
    /\ pc = "scraped"
    /\ ~ReturnsAfterScrape(run_args)
    /\ WritesSheets(run_args)
    /\ tabs' = write_listings(tabs, AllListings(results, 1), clock)
    /\ calls' = calls \cup {"write_listings"}
    /\ pc' = "sheets"
    /\ UNCHANGED <<run_args, results, yesterday, loop_i, run_summaries, published,
                   summaryVars, parseVars, notionVars, scrapeVars>>

\* Step 2 skipped under --notion-only
SkipSheets ==
    /\ pc = "scraped"
    /\ ~ReturnsAfterScrape(run_args)
    /\ ~WritesSheets(run_args)
    /\ pc' = "sheets"
    /\ UNCHANGED <<run_args, results, tabs, yesterday, loop_i, run_summaries, calls,
                   published, summaryVars, parseVars, notionVars, scrapeVars>>

\* Step 3 begins: sh = get_spreadsheet(); yesterday = today - 1 day
GetSpreadsheet ==
    /\ pc = "sheets"
    /\ yesterday' = clock - 1
    /\ loop_i' = 1
    /\ calls' = calls \cup {"get_spreadsheet"}
    /\ pc' = "loop"
    /\ UNCHANGED <<run_args, results, tabs, run_summaries, published,
                   summaryVars, parseVars, notionVars, scrapeVars>>

\* one turn of the nested loops: read the baseline, filter it, compute the summary
SummariseNext ==
    /\ pc = "loop"
    /\ loop_i <= Len(RunPairs)
    /\ LET complex_id == RunPairs[loop_i][1]
           trade_type == RunPairs[loop_i][2]
           OfType(l)  == l.trade_type = trade_type
           OfPair(r)  == /\ PyStr(r.complex_id) = complex_id
                         /\ r.trade_type = StrVal(TradeText(trade_type))
           type_listings == SelectSeq(ResultsGet(results, complex_id), OfType)
           rows          == SelectSeq(read_worksheet(tabs, yesterday), OfPair)
       IN  run_summaries' =
               Append(run_summaries,
                      compute_summary(complex_id, trade_type, type_listings, rows, clock))
    /\ loop_i' = loop_i + 1
    /\ calls' = calls \cup {"read_worksheet"}
    /\ UNCHANGED <<run_args, pc, results, tabs, yesterday, published,
                   summaryVars, parseVars, notionVars, scrapeVars>>

\* notion_handler.write_summaries(summaries)
Publish ==
    /\ pc = "loop"
    /\ loop_i > Len(RunPairs)
    /\ published' = run_summaries
    /\ calls' = calls \cup {"write_summaries"}
    /\ pc' = "done"
    /\ UNCHANGED <<run_args, results, tabs, yesterday, loop_i, run_summaries,
                   summaryVars, parseVars, notionVars, scrapeVars>>

\* a collaborator call raises (credentials, network) and the exception leaves run
Abort ==
    /\ \/ pc = "start" /\ Scrapes(run_args)
       \/ pc = "scraped" /\ ~ReturnsAfterScrape(run_args) /\ WritesSheets(run_args)
       \/ pc \in {"sheets", "loop"}
    /\ pc' = "failed"
    /\ UNCHANGED <<run_args, results, tabs, yesterday, loop_i, run_summaries, calls,
                   published, summaryVars, parseVars, notionVars, scrapeVars>>

Next ==
    \/ \E scraped \in SeqsUpTo(ScrapedListings, MaxScraped) : Scrape(scraped)
    \/ SkipScrape
    \/ ScrapeOnlyReturn
    \/ WriteSheets
    \/ SkipSheets
    \/ GetSpreadsheet
    \/ SummariseNext
    \/ Publish
    \/ Abort

\* one pipeline run, for every combination of the three mode flags
Spec == Init /\ [][Next]_vars

\* C9: a run started with --sheets-only invokes neither run_scraper nor
\* notion_handler.write_summaries.
C9_SheetsOnlySkipsScrapeAndNotion ==
    (run_args.sheets_only /\ ~run_args.scrape_only /\ ~run_args.notion_only) =>
        /\ "run_scraper" \notin calls
        /\ "write_summaries" \notin calls

\* C10: a run started with --scrape-only never calls sheets_handler.write_listings
\* nor notion_handler.write_summaries, and after the scrape step it returns.
C10_ScrapeOnlyWritesNothing ==
    run_args.scrape_only =>
        /\ "write_listings" \notin calls
        /\ "write_summaries" \notin calls
        /\ pc \in {"start", "scraped", "done", "failed"}
        /\ tabs[clock] = <<>>
        /\ published = <<>>

\* a --scrape-only run that scraped listings and has returned
C10_Witness ==
    /\ run_args.scrape_only
    /\ ~run_args.sheets_only
    /\ ~run_args.notion_only
    /\ pc = "done"
    /\ "run_scraper" \in calls
    /\ \E c \in DOMAIN results : Len(results[c]) = 2


\* the listings of results for one (complex, trade type) pair
TypeListings(res, pair) ==
    LET OfType(l) == l.trade_type = pair[2]
    IN  SelectSeq(ResultsGet(res, pair[1]), OfType)

\* C11: when the tab named as yesterday's baseline does not exist, read_worksheet
\* returns the empty list, every summary the loop has computed is the summary of
\* its pair against the empty baseline, and a run that reaches the publish step
\* hands write_summaries one summary for every (complex, trade type) pair.
C11_AbsentBaselineIsEmpty ==
    (pc \in {"loop", "done"} /\ "get_spreadsheet" \in calls /\ tabs[yesterday] = <<>>) =>
        /\ read_worksheet(tabs, yesterday) = <<>>
        /\ \A k \in DOMAIN run_summaries :
               run_summaries[k] =
                   compute_summary(RunPairs[k][1], RunPairs[k][2],
                                   TypeListings(results, RunPairs[k]), <<>>, clock)
        /\ "write_summaries" \in calls =>
               /\ published = run_summaries
               /\ Len(published) = Len(RunPairs)

\* a full run on a first day: listings were scraped, no tab of yesterday exists,
\* and the three summaries were published with every listing counted as new
C11_Witness ==
    /\ pc = "done"
    /\ "write_summaries" \in calls
    /\ tabs[yesterday] = <<>>
    /\ Len(published) = 3
    /\ published[1].new_listings = 2
    /\ published[1].removed_listings = 0


----------------------------------------------------------------------------
(* The price parser against the stated algorithm *)

\* price_raw of parse_article: dealOrWarrantPrc, or rentPrc when that is empty
PriceRaw(a) == IF a.dealOrWarrantPrc # <<>> THEN a.dealOrWarrantPrc ELSE a.rentPrc

\* the stated amount of a text without whitespace and separators: with the marker,
\* the segment before it times 10000 plus the segment after it when that is
\* non-empty and all decimal digits; else the plain integer; else 0
StatedAmount(s) ==
    IF s = <<>> THEN 0
    ELSE IF Contains(s, "E")
    THEN LET first  == SplitOnce(s, "E")[1]
             second == SplitOnce(s, "E")[2]
         IN  (IF PyInt(first).ok THEN PyInt(first).val * 10000 ELSE 0)
                 + (IF IsDecimal(second) THEN DigitsToNat(second) ELSE 0)
    ELSE IF PyInt(s).ok THEN PyInt(s).val ELSE 0

\* the stated (price, monthly_rent) of a raw text
StatedPrice(raw, trade_type) ==
    LET s == Remove(Remove(raw, ","), " ")
    IN  IF s = <<>> THEN <<0, 0>>
        ELSE IF trade_type = "B2" /\ Contains(s, "/")
        THEN <<StatedAmount(SplitOnce(s, "/")[1]), StatedAmount(SplitOnce(s, "/")[2])>>
        ELSE <<StatedAmount(s), 0>>

\* C12: for every text and trade type the price parser returns the pair of the
\* stated algorithm, and the monthly component is 0 unless the type is B2.
C12_ParserFollowsAlgorithm ==
    parsed # <<>> =>
        LET r == _parse_price_field(PriceRaw(article), article_trade)
        IN  /\ ~r.raised
            /\ r.val = StatedPrice(PriceRaw(article), article_trade)
            /\ article_trade # "B2" => r.val[2] = 0

\* C12 for the texts on which the parser returns: the pair is the stated one.
C12_ReturnedPairsAsStated ==
    parsed # <<>> =>
        LET r == _parse_price_field(PriceRaw(article), article_trade)
        IN  ~r.raised =>
                /\ r.val = StatedPrice(PriceRaw(article), article_trade)
                /\ article_trade # "B2" => r.val[2] = 0


----------------------------------------------------------------------------
(* scraper.py: fetch_articles_page, scrape_complex and run_scraper *)

\* the attempts of the retry loop of fetch_articles_page
_MAX_RETRIES == 3

\* config.MAX_LISTINGS_PER_COMPLEX as set in the environment (200 when unset)
MAX_LISTINGS_PER_COMPLEX == 3

\* the most articles of one page of the API
MaxPageSize == 2

\* page_num only selects the URL of the request: it is counted up to this number
\* and held there
MaxPageNum == 2

\* an article that becomes a Listing, and one without articleNo, which does not
ScrapeArticles ==
    {[articleNo |-> <<"7">>, dealOrWarrantPrc |-> <<"1">>, rentPrc |-> <<>>],
     [articleNo |-> <<>>, dealOrWarrantPrc |-> <<"1">>, rentPrc |-> <<>>]}

\* the JSON bodies of a successful response
ApiPages ==
    [empty : {FALSE}, articleList : SeqsUpTo(ScrapeArticles, MaxPageSize),
     isMoreData : BOOLEAN]

\* the dict the script returns for a response that is not ok: {_status, _error}
ErrorBody == [empty |-> FALSE, articleList |-> <<>>, isMoreData |-> FALSE]

\* what one page.evaluate(js) does: it raises, or it returns a dict with _status
EvaluateOutcomes ==
    {[kind |-> "exception", status |-> 0, body |-> EmptyDict]}
        \cup {[kind |-> "response", status |-> st, body |-> ErrorBody] : st \in {429, 500}}
        \cup {[kind |-> "response", status |-> 200, body |-> b] : b \in ApiPages}

\* the retry loop goes on to its next attempt, or the function returns result
FetchAgain == [done |-> FALSE, result |-> EmptyDict]

FetchReturn(result) == [done |-> TRUE, result |-> result]

\* a retry loop that also retries on every status >= 400
fetch_attempt_RetryOnError(att, outcome) ==
    IF outcome.kind = "exception" \/ outcome.status >= 400
    THEN (IF att = _MAX_RETRIES THEN FetchReturn(EmptyDict) ELSE FetchAgain)
    ELSE FetchReturn(outcome.body)

\* one turn of `for attempt in range(1, _MAX_RETRIES + 1)` on the outcome of
\* page.evaluate; `continue` on the last attempt falls out of the loop to `return {}`
fetch_attempt(att, outcome) ==
    IF outcome.kind = "exception"
    THEN (IF att = _MAX_RETRIES THEN FetchReturn(EmptyDict) ELSE FetchAgain)
    ELSE IF outcome.status = 429
    THEN (IF att = _MAX_RETRIES THEN FetchReturn(EmptyDict) ELSE FetchAgain)
    ELSE IF outcome.status # 0 /\ outcome.status >= 400
    THEN FetchReturn(EmptyDict)
    ELSE FetchReturn(outcome.body)

\* the Listings of the articles of a page, in order: parse_article results that
\* are not None
PageListings(articles, trade_type) ==
    LET IsListing(l) == l.ok
    IN  SelectSeq([i \in DOMAIN articles |-> parse_article(articles[i], trade_type)],
                  IsListing)

\* the body of the loop of scrape_complex on the page d, from `articles = ...` to
\* the next test of the while condition: the list so far and whether the loop
\* goes on to fetch another page
scrape_page(lst, d, trade_type) ==
    IF d.articleList = <<>>
    THEN [listings |-> lst, more |-> FALSE]
    ELSE LET new == lst \o PageListings(d.articleList, trade_type)
         IN  [listings |-> new,
              more     |-> d.isMoreData /\ Len(new) < MAX_LISTINGS_PER_COMPLEX]

\* run_scraper enters scrape_complex for the first trade type of the complex
InitScrape ==
    /\ scrape_pc = "fetch"
    /\ trade_i = 1
    /\ collected = <<>>
    /\ sc_listings = <<>>
    /\ page_num = 1
    /\ attempt = 1
    /\ outcomes = <<>>
    /\ data = EmptyDict
    /\ IdleSummary
    /\ IdleParse
    /\ IdleNotion
    /\ IdleRun

\* fetch_articles_page: one attempt, page.evaluate ending as outcome
FetchAttempt(outcome) ==
    /\ scrape_pc = "fetch"
    /\ outcomes' = Append(outcomes, outcome)
    /\ LET r == fetch_attempt(attempt, outcome)
       IN  IF r.done
           THEN /\ data' = r.result
                /\ scrape_pc' = "page"
                /\ attempt' = attempt
           ELSE /\ attempt' = attempt + 1
                /\ UNCHANGED <<data, scrape_pc>>
    /\ UNCHANGED <<trade_i, collected, sc_listings, page_num,
                   summaryVars, parseVars, notionVars, runVars>>

\* scrape_complex takes the page fetch_articles_page returned; the loop either
\* fetches the next page, or ends and run_scraper extends results[complex_id]
ProcessPage ==
    /\ scrape_pc = "page"
    /\ LET r == scrape_page(sc_listings, data, RunTradeTypes[trade_i])
       IN  /\ sc_listings' = r.listings
           /\ IF r.more
              THEN /\ page_num' = (IF page_num < MaxPageNum THEN page_num + 1 ELSE page_num)
                   /\ attempt' = 1
                   /\ outcomes' = <<>>
                   /\ scrape_pc' = "fetch"
                   /\ UNCHANGED collected
              ELSE /\ collected' = collected \o r.listings
                   /\ scrape_pc' = "returned"
                   /\ UNCHANGED <<page_num, attempt, outcomes>>
    /\ UNCHANGED <<trade_i, data, summaryVars, parseVars, notionVars, runVars>>

\* the inner loop of run_scraper calls scrape_complex for the next trade type
NextTradeType ==
    /\ scrape_pc = "returned"
    /\ trade_i < Len(RunTradeTypes)
    /\ trade_i' = trade_i + 1
    /\ sc_listings' = <<>>
    /\ page_num' = 1
    /\ attempt' = 1
    /\ outcomes' = <<>>
    /\ data' = EmptyDict
    /\ scrape_pc' = "fetch"
    /\ UNCHANGED <<collected, summaryVars, parseVars, notionVars, runVars>>

\* run_scraper returns results
FinishScraper ==
    /\ scrape_pc = "returned"
    /\ trade_i = Len(RunTradeTypes)
    /\ scrape_pc' = "done"
    /\ UNCHANGED <<trade_i, collected, sc_listings, page_num, attempt, outcomes, data,
                   summaryVars, parseVars, notionVars, runVars>>

NextScrape ==
    \/ \E outcome \in EvaluateOutcomes : FetchAttempt(outcome)
    \/ ProcessPage
    \/ NextTradeType
    \/ FinishScraper

\* run_scraper on one complex, for every sequence of outcomes of page.evaluate
SpecScrape == InitScrape /\ [][NextScrape]_vars

\* the same, with the event loop running the coroutine whenever it can go on
SpecScrapeFair == SpecScrape /\ WF_vars(NextScrape)


\* an outcome of page.evaluate the retry loop answers with another attempt
Retryable(o) == o.kind = "exception" \/ o.status = 429

\* C13: fetch_articles_page calls page.evaluate at most _MAX_RETRIES times and has
\* returned after the last of them; it goes on to another attempt only after an
\* exception or a 429; it returns the empty dict when every attempt ended in one
\* of those, and at once on any other status >= 400; else it returns the response.
C13_BoundedRetry ==
    /\ Len(outcomes) <= _MAX_RETRIES
    /\ scrape_pc = "fetch" =>
           /\ Len(outcomes) < _MAX_RETRIES
           /\ attempt = Len(outcomes) + 1
           /\ \A i \in DOMAIN outcomes : Retryable(outcomes[i])
    /\ scrape_pc = "page" =>
           LET n    == Len(outcomes)
               last == outcomes[n]
           IN  /\ n >= 1
               /\ \A i \in 1..(n - 1) : Retryable(outcomes[i])
               /\ Retryable(last) => (n = _MAX_RETRIES /\ data = EmptyDict)
               /\ (~Retryable(last) /\ last.status >= 400) => data = EmptyDict
               /\ (~Retryable(last) /\ last.status < 400) => data = last.body

\* an exception, then two 429 responses: three calls, and the empty dict returned
C13_Witness ==
    /\ scrape_pc = "page"
    /\ Len(outcomes) = _MAX_RETRIES
    /\ outcomes[1].kind = "exception"
    /\ outcomes[2].status = 429
    /\ outcomes[3].status = 429
    /\ data = EmptyDict

\* C18: the list scrape_complex returns, and the list run_scraper accumulates for
\* the complex, never hold more than MAX_LISTINGS_PER_COMPLEX listings.
C18_ListingsCapped ==
    scrape_pc \in {"returned", "done"} =>
        /\ Len(sc_listings) <= MAX_LISTINGS_PER_COMPLEX
        /\ Len(collected) <= MAX_LISTINGS_PER_COMPLEX

\* C19: the call of scrape_complex under way returns, whatever pages it is served.
C19_ScrapeComplexReturns == <>(scrape_pc = "returned")


----------------------------------------------------------------------------
(* Properties of the deltas, of loosely typed rows and of the lowest listing *)

\* a price cell that is valid as stated: present, entirely decimal digits, and > 0
StatedValidPrice(v) ==
    \/ v.t = "int" /\ v.n > 0
    \/ v.t = "str" /\ IsDecimal(v.s) /\ DigitsToNat(v.s) > 0

\* the valid prices of yesterday's rows, in order
StatedYesterdayPrices(rows) ==
    LET Valid(r) == StatedValidPrice(r.price)
        kept     == SelectSeq(rows, Valid)
    IN  [i \in DOMAIN kept |->
            IF kept[i].price.t = "int" THEN kept[i].price.n
            ELSE DigitsToNat(kept[i].price.s)]

\* the prices > 0 of today's listings, in order
StatedTodayPrices(today) ==
    LET Valid(l) == l.price > 0
        kept     == SelectSeq(today, Valid)
    IN  [i \in DOMAIN kept |-> kept[i].price]

\* C14: every summary returned has avg_price_change = avg(today) - avg(yesterday)
\* and min_price_change = min(today) - min(yesterday), unguarded, the average and
\* the minimum of no valid price being 0.
C14_PlainDifferences ==
    (summary # <<>> /\ summary[1].res # ValueErrorRaised) =>
        LET c  == summary[1]
            tp == StatedTodayPrices(c.today)
            yp == StatedYesterdayPrices(c.rows)
        IN  /\ c.res.avg_price = Average(tp)
            /\ c.res.min_price = Minimum(tp)
            /\ c.res.avg_price_change = RatSub(Average(tp), Average(yp))
            /\ c.res.min_price_change = Minimum(tp) - Minimum(yp)
            /\ yp = <<>> => c.res.min_price_change = c.res.min_price
            /\ (tp = <<>> /\ yp # <<>>) => c.res.min_price_change = 0 - SeqMin(yp)

\* no valid price today, against two different valid prices of yesterday
C14_Witness ==
    /\ summary # <<>>
    /\ summary[1].res # ValueErrorRaised
    /\ summary[1].today # <<>>
    /\ summary[1].res.min_price = 0
    /\ summary[1].res.min_price_change = 0 - 150
    /\ summary[1].res.avg_price_change = Rat(0 - 225, 1)

\* a price cell that is absent, empty, zero, or text that is not entirely digits
LoosePrice(v) ==
    \/ v.t = "none"
    \/ v.t = "int" /\ v.n = 0
    \/ v.t = "str" /\ ~IsDecimal(v.s)

\* the ids of all rows, as text
AllRowIds(rows) == {PyStr(rows[i].listing_id) : i \in DOMAIN rows}

\* what C15 states of the call c
TotalOnLooseRows(c) ==
    LET yp == StatedYesterdayPrices(c.rows)
        T  == {c.today[i].listing_id : i \in DOMAIN c.today}
    IN  /\ c.res # ValueErrorRaised
        /\ RatSub(c.res.avg_price, c.res.avg_price_change) = Average(yp)
        /\ c.res.min_price - c.res.min_price_change = Minimum(yp)
        /\ yp = <<>> => c.res.avg_price_change_pct = 0
        /\ c.res.new_listings = Cardinality(T \ AllRowIds(c.rows))
        /\ c.res.removed_listings = Cardinality(AllRowIds(c.rows) \ T)

\* C15: a call on rows some of which have a price that is absent, empty, zero or
\* not entirely digits returns without raising; those rows add nothing to
\* yesterday's average and minimum (both 0, and the percentage 0.0, when no row
\* has a valid price), and their listing_ids count in yesterday's id set.
C15_TotalOnLooseRows ==
    (summary # <<>> /\ \E i \in DOMAIN summary[1].rows : LoosePrice(summary[1].rows[i].price))
        => TotalOnLooseRows(summary[1])

\* C15 for rows whose text cells hold no digit character outside 0-9.
C15_TotalWithoutOtherDigits ==
    (/\ summary # <<>>
     /\ \E i \in DOMAIN summary[1].rows : LoosePrice(summary[1].rows[i].price)
     /\ \A i \in DOMAIN summary[1].rows :
            \A k \in DOMAIN summary[1].rows[i].price.s :
                summary[1].rows[i].price.s[k] \notin DigitLike \ Digits)
        => TotalOnLooseRows(summary[1])

\* the listing the description is stated to be of: the first, in input order, of
\* the listings with the smallest price > 0
StatedLowestIndex(today) ==
    CHOOSE i \in DOMAIN today :
        /\ today[i].price > 0
        /\ \A j \in DOMAIN today : today[j].price > 0 => today[i].price <= today[j].price
        /\ \A j \in 1..(i - 1) : today[j].price # today[i].price

\* C16: lowest_listing is empty exactly when no listing has price > 0; otherwise it
\* describes the first listing of the smallest price > 0, that price is min_price,
\* and the description shows deposit and monthly rent for B2, else the price alone.
C16_LowestIsFirstCheapest ==
    (summary # <<>> /\ summary[1].res # ValueErrorRaised) =>
        LET c == summary[1]
        IN  IF \A i \in DOMAIN c.today : c.today[i].price <= 0
            THEN c.res.lowest_listing = <<>>
            ELSE LET l     == c.today[StatedLowestIndex(c.today)]
                     label == IF c.trade_type = "B2"
                              THEN IntToStr(l.price) \o <<"manwon/">>
                                       \o IntToStr(l.monthly_rent) \o <<"manwon">>
                              ELSE IntToStr(l.price) \o <<"manwon">>
                 IN  /\ c.res.lowest_listing # <<>>
                     /\ l.price = c.res.min_price
                     /\ c.res.lowest_listing =
                            IntToStr(l.floor) \o <<"cheung / ">> \o FloatToStr(l.area_m2)
                                \o <<"m2 / ">> \o label \o <<" / ">> \o l.agent_name

\* a B2 call on two listings of the same lowest price and different rents, behind
\* a listing of price 0: the description shows the rent of the first of the two
C16_Witness ==
    /\ summary # <<>>
    /\ summary[1].trade_type = "B2"
    /\ Len(summary[1].today) = 3
    /\ summary[1].today[1].price = 0
    /\ summary[1].today[2].price = 100
    /\ summary[1].today[3].price = 100
    /\ summary[1].today[2].monthly_rent = 0
    /\ summary[1].today[3].monthly_rent = 50
    /\ summary[1].res.lowest_listing =
           <<"3", "cheung / ", "8", "4", ".", "9", "m2 / ", "1", "0", "0", "manwon/",
             "0", "manwon", " / ", "A">>


----------------------------------------------------------------------------
(* Re-runs of the Sheets write, and runs across midnight *)

\* today's tab is absent, or holds the rows an earlier run wrote
InitSheets ==
    /\ run_args = [scrape_only |-> FALSE, sheets_only |-> FALSE, notion_only |-> FALSE]
    /\ pc = "idle"
    /\ results = <<>>
    /\ \E old \in SeqsUpTo(ScrapedListings, 1) : \E present \in BOOLEAN :
           tabs = [d \in Days |->
                      IF d = 0 /\ present
                      THEN <<[i \in DOMAIN old |-> _listing_to_row(Dated(old, d)[i])]>>
                      ELSE <<>>]
    /\ yesterday = 0
    /\ loop_i = 0
    /\ run_summaries = <<>>
    /\ calls = {}
    /\ published = <<>>
    /\ IdleSummary
    /\ IdleParse
    /\ IdleNotion
    /\ IdleScrape

\* steps 1 and 2 of a run made again on the same day: the scrape returns scraped
\* and write_listings(all_listings) is called
Rewrite(scraped) ==
    /\ results' = [c \in Range(RunComplexIds) |-> Dated(scraped, clock)]
    /\ tabs' = write_listings(tabs, AllListings(results', 1), clock)
    /\ calls' = {"run_scraper", "write_listings"}
    /\ UNCHANGED <<run_args, pc, yesterday, loop_i, run_summaries, published,
                   summaryVars, parseVars, notionVars, scrapeVars>>

NextSheets == \E scraped \in SeqsUpTo(ScrapedListings, MaxScraped) : Rewrite(scraped)

\* write_listings called again and again on one day
SpecSheets == InitSheets /\ [][NextSheets]_vars

\* the data rows of the listings lst
RowsOf(lst) == [i \in DOMAIN lst |-> _listing_to_row(lst[i])]

\* C17: after every call of write_listings the data rows of today's tab are the
\* rows of the listings passed to that call, in order, whatever the tab held
\* before and also when the list is empty.
C17_TabHoldsLastWrite ==
    "write_listings" \in calls =>
        tabs[clock] = <<RowsOf(AllListings(results, 1))>>

\* C17 for the calls that pass at least one listing.
C17_TabHoldsLastNonEmptyWrite ==
    ("write_listings" \in calls /\ AllListings(results, 1) # <<>>) =>
        tabs[clock] = <<RowsOf(AllListings(results, 1))>>

\* midnight may pass between any two steps of the run
NextMidnight ==
    \/ Next
    \/ Tick

\* one pipeline run while the calendar date may change
SpecMidnight == Init /\ [][NextMidnight]_vars

\* the tabs of the days of the run that exist
TodayTabs == {d \in Days : d >= 0 /\ tabs[d] # <<>>}

\* C20: in a run that scraped, wrote the sheet and published, one date d is the
\* date of every published summary, of every scraped Listing and the name of the
\* tab write_listings wrote, and the baseline tab read is the one of day d - 1.
C20_OneDatePerRun ==
    (pc = "done" /\ {"run_scraper", "write_listings", "write_summaries"} \subseteq calls) =>
        \E d \in Days :
            /\ \A k \in DOMAIN published : published[k].date = d
            /\ \A c \in DOMAIN results : \A i \in DOMAIN results[c] : results[c][i].date = d
            /\ TodayTabs = {d}
            /\ yesterday = d - 1

====
